---------------------------- MODULE Spec2Model ----------------------------
(***************************************************************************)
(* Protocol core of the dRehmFlight configurator: the MSP V1 frame codec   *)
(* (msp.js), the CLI mode switch (cli.js) and the settings capture of the  *)
(* terminal tab (tabs/terminal.js), driven by app.js.                      *)
(*                                                                         *)
(* Bytes are integers 0..255.  Text is a sequence of character codes; the  *)
(* device text of the model is ASCII, for which TextDecoder/TextEncoder    *)
(* map one byte to one code unit of the same value.                        *)
(***************************************************************************)
EXTENDS Integers, Sequences, FiniteSets, TLC

VARIABLES
  \* msp.js
  parser,          \* MspParser fields: state, len, cmd, checksum, payload (a buffer id), payloadIdx, onMessage
  heap,            \* live payload buffers: buffer id -> bytes
  \* serial.js
  port,            \* serial.port is set
  reader,          \* serial.reader is set: the read loop runs
  writer,          \* serial.writer is set
  onReceive,       \* serial.onReceive: "null", "msp" (parser.parse) or "cli" (cliParse)
  \* cli.js
  inCliMode,       \* the link mode: FALSE Telemetry (MSP), TRUE Command (CLI)
  onTextReceive,   \* "null" or "onCliText"
  \* app.js
  pollTimer,       \* 0 (null) or the id of the poll interval
  activeTab,       \* "status", "sensors" or "terminal"
  \* tabs/terminal.js
  capturing,       \* a capture session is active
  captureBuffer,   \* text accumulated by the session
  captureTimer,    \* 0 (null) or the id of the deadline timeout
  autoLoadPending, \* load the settings at the next prompt
  silentLoad,      \* the session in progress adds no notice of its parameters to the display
  termOutput,      \* the display: whether initTerminal has found the element, and its textContent
  \* the JavaScript runtime
  timers,          \* pending setTimeout and setInterval callbacks
  tasks,           \* async functions suspended at an await
  \* observation of the program
  msgs,            \* calls made to the recording onMessage handler: <<[cmd, payload (buffer id)]>>
  writes,          \* the latest writes accepted by the transport, in order, with the link mode and the routing at the write
  logDepth,        \* how many of the latest writes the observer keeps
  events,          \* clicks, poll ticks and device chunks so far, while the whole application runs
  cleaned,         \* the text finishCapture computed last (its local content)
  lastFinish,      \* how the last capture session ended
  captureSeq,      \* number of capture sessions begun
  \* the environment
  wire,            \* bytes the device has sent that the read loop has not delivered yet
  sent,            \* what the device put on the wire, item by item
  chunks,          \* number of receive callbacks run so far (counted up to ChunkCap)
  request,         \* the request frame last encoded by the codec harness
  calls,           \* operations the caller has invoked, in order
  fed,             \* bytes handed to the decoder one by one so far, with -1 where reset() was called
  probe            \* the read accessor call made last: payload, offset, value returned

vars == <<parser, heap, port, reader, writer, onReceive, inCliMode, onTextReceive, pollTimer,
          activeTab, capturing, captureBuffer, captureTimer, autoLoadPending,
          silentLoad, termOutput,
          timers, tasks, msgs, writes, logDepth, events, cleaned, lastFinish, captureSeq,
          wire, sent, chunks, request, calls, fed, probe>>

\* The whole state as one record, so that a handler is a function from state
\* to state and a handler that calls another is their composition
World ==
  [parser |-> parser, heap |-> heap, port |-> port, reader |-> reader, writer |-> writer,
   onReceive |-> onReceive,
   inCliMode |-> inCliMode, onTextReceive |-> onTextReceive, pollTimer |-> pollTimer,
   activeTab |-> activeTab, capturing |-> capturing, captureBuffer |-> captureBuffer,
   captureTimer |-> captureTimer, autoLoadPending |-> autoLoadPending,
   silentLoad |-> silentLoad, termOutput |-> termOutput,
   timers |-> timers, tasks |-> tasks, msgs |-> msgs, writes |-> writes, logDepth |-> logDepth, events |-> events,
   cleaned |-> cleaned, lastFinish |-> lastFinish, captureSeq |-> captureSeq,
   wire |-> wire, sent |-> sent, chunks |-> chunks, request |-> request,
   calls |-> calls, fed |-> fed, probe |-> probe]

\* The next state is the record w
Commit(w) ==
  /\ parser' = w.parser /\ heap' = w.heap
  /\ port' = w.port /\ reader' = w.reader /\ writer' = w.writer
  /\ onReceive' = w.onReceive /\ inCliMode' = w.inCliMode
  /\ onTextReceive' = w.onTextReceive /\ pollTimer' = w.pollTimer
  /\ activeTab' = w.activeTab /\ capturing' = w.capturing
  /\ captureBuffer' = w.captureBuffer /\ captureTimer' = w.captureTimer
  /\ autoLoadPending' = w.autoLoadPending /\ timers' = w.timers
  /\ silentLoad' = w.silentLoad /\ termOutput' = w.termOutput
  /\ tasks' = w.tasks /\ msgs' = w.msgs /\ writes' = w.writes
  /\ logDepth' = w.logDepth /\ events' = w.events
  /\ cleaned' = w.cleaned /\ lastFinish' = w.lastFinish
  /\ captureSeq' = w.captureSeq /\ wire' = w.wire /\ sent' = w.sent
  /\ chunks' = w.chunks /\ request' = w.request /\ calls' = w.calls /\ fed' = w.fed
  /\ probe' = w.probe

\* serial.connected
isConnected(w) == w.port /\ w.reader

connected == port /\ reader

-----------------------------------------------------------------------------
(* Bounds of the model *)

MaxPayload == 2         \* longest payload of a generated response frame
ChunkCap == 2           \* receive callbacks are counted up to this number
LogDepth == 1           \* latest writes kept while the whole application runs
HandshakeDepth == 2     \* latest writes kept while the handshakes of the application are observed
MaxEvents == 3          \* clicks, poll ticks and device chunks while the whole application runs
MaxPollEvents == 4      \* clicks, rate changes, port losses and poll ticks while the polling is observed
MaxText == 3            \* longest generated device text
MaxLoads == 2           \* capture sessions begun by the Load button
MaxStream == 6          \* bytes and resets handed to the decoder one by one
MaxCalls == 4           \* operations the caller of the mode switch invokes
MaxRequests == 3        \* loadSettings and loadDefaults requests of a caller
ProbeLen == 4           \* length of the payloads the read accessors are called on

CmdSet == {36, 108, 255}
PayloadBytes == {0, 36, 255}
AllCmds == 0 .. 255
CorruptBytes == {0, 36, 255}

-----------------------------------------------------------------------------
(* Bit operations on non-negative integers, as JavaScript's ^ and & on     *)
(* values below 2^31                                                       *)

RECURSIVE BitXor(_, _)
BitXor(a, b) ==
  IF a = 0 THEN b
  ELSE IF b = 0 THEN a
  ELSE (((a % 2) + (b % 2)) % 2) + (2 * BitXor(a \div 2, b \div 2))

RECURSIVE BitAnd(_, _)
BitAnd(a, b) ==
  IF a = 0 \/ b = 0 THEN 0
  ELSE ((a % 2) * (b % 2)) + (2 * BitAnd(a \div 2, b \div 2))

\* new Uint8Array([...]) stores each element modulo 256
ToUint8(x) == x % 256

-----------------------------------------------------------------------------
(* msp.js: parser states *)

S_IDLE == 0
S_HEADER_M == 1
S_DIR == 2
S_LEN == 3
S_CMD == 4
S_PAYLOAD == 5
S_CHECKSUM == 6

\* new MspParser(): payload is the empty array [], held as buffer 1
NewParser ==
  [state |-> S_IDLE, len |-> 0, cmd |-> 0, checksum |-> 0,
   payload |-> 1, payloadIdx |-> 0, onMessage |-> "null"]

NewHeap == [r \in {1} |-> <<>>]

\* Buffers still referenced: the parser's and those handed to the handler
Live(p, ms) == {p.payload} \cup {ms[i].payload : i \in 1 .. Len(ms)}

\* new Uint8Array(n): a fresh zero-filled buffer; unreferenced buffers are dropped
FreshRef(p, ms) ==
  CHOOSE r \in 1 .. (Cardinality(Live(p, ms)) + 1) :
    /\ r \notin Live(p, ms)
    /\ \A q \in 1 .. (r - 1) : q \in Live(p, ms)

\* The codec state threaded through the byte loop
Machine(p, h, ms) == [p |-> p, heap |-> h, msgs |-> ms]

\* case S_IDLE
onIdle(m, c) ==
  IF c = 36 THEN [m EXCEPT !.p.state = S_HEADER_M] ELSE m

\* case S_HEADER_M that takes any byte for the marker (mutation)
onHeaderM_acceptAny(m, c) == [m EXCEPT !.p.state = S_DIR]

\* case S_HEADER_M
onHeaderM(m, c) ==
  [m EXCEPT !.p.state = IF c = 77 THEN S_DIR ELSE S_IDLE]

\* case S_DIR that keeps waiting for the direction byte (mutation)
onDir_keepWaiting(m, c) ==
  [m EXCEPT !.p.state = IF c = 62 THEN S_LEN ELSE S_DIR]

\* case S_DIR
onDir(m, c) ==
  [m EXCEPT !.p.state = IF c = 62 THEN S_LEN ELSE S_IDLE]

\* case S_LEN with a buffer that is not freshly allocated (mutation)
onLen_reuseBuffer(m, c) ==
  LET r == m.p.payload
  IN  [m EXCEPT !.p.len = c, !.p.checksum = c, !.p.payloadIdx = 0,
                !.p.state = S_CMD,
                !.heap = [m.heap EXCEPT ![r] = [i \in 1 .. c |-> 0]]]

\* case S_LEN
onLen(m, c) ==
  LET r  == FreshRef(m.p, m.msgs)
      p2 == [m.p EXCEPT !.len = c, !.checksum = c, !.payload = r,
                        !.payloadIdx = 0, !.state = S_CMD]
  IN  [m EXCEPT !.p = p2,
                !.heap = [q \in Live(p2, m.msgs) |->
                            IF q = r THEN [i \in 1 .. c |-> 0] ELSE m.heap[q]]]

\* case S_CMD that goes to the payload state whatever the length (mutation)
onCmd_alwaysPayload(m, c) ==
  [m EXCEPT !.p.cmd = c,
            !.p.checksum = BitXor(m.p.checksum, c),
            !.p.state = S_PAYLOAD]

\* case S_CMD
onCmd(m, c) ==
  [m EXCEPT !.p.cmd = c,
            !.p.checksum = BitXor(m.p.checksum, c),
            !.p.state = IF m.p.len > 0 THEN S_PAYLOAD ELSE S_CHECKSUM]

\* case S_PAYLOAD that waits for one byte too many (mutation)
onPayload_offByOne(m, c) ==
  LET r == m.p.payload
      i == m.p.payloadIdx
      h == IF i + 1 <= Len(m.heap[r])
           THEN [m.heap EXCEPT ![r][i + 1] = c]
           ELSE m.heap
  IN  [m EXCEPT !.heap = h,
                !.p.payloadIdx = i + 1,
                !.p.checksum = BitXor(m.p.checksum, c),
                !.p.state = IF i + 1 > m.p.len THEN S_CHECKSUM ELSE S_PAYLOAD]

\* case S_PAYLOAD: a typed array ignores a store past its end
onPayload(m, c) ==
  LET r == m.p.payload
      i == m.p.payloadIdx
      h == IF i + 1 <= Len(m.heap[r])
           THEN [m.heap EXCEPT ![r][i + 1] = c]
           ELSE m.heap
  IN  [m EXCEPT !.heap = h,
                !.p.payloadIdx = i + 1,
                !.p.checksum = BitXor(m.p.checksum, c),
                !.p.state = IF i + 1 >= m.p.len THEN S_CHECKSUM ELSE S_PAYLOAD]

\* this.onMessage({ cmd, payload }): the recording handler keeps the message,
\* handleMessage (app.js) reads it and keeps nothing of the protocol state
callOnMessage(m) ==
  IF m.p.onMessage = "record"
  THEN [m EXCEPT !.msgs = Append(m.msgs, [cmd |-> m.p.cmd, payload |-> m.p.payload])]
  ELSE m

\* case S_CHECKSUM that does not compare the checksum (mutation)
onChecksum_noCompare(m, c) ==
  LET m1 == [m EXCEPT !.p.state = S_IDLE]
  IN  IF m.p.onMessage # "null" THEN callOnMessage(m1) ELSE m1

\* case S_CHECKSUM
onChecksum(m, c) ==
  LET m1 == [m EXCEPT !.p.state = S_IDLE]
  IN  IF BitAnd(m.p.checksum, 255) = c /\ m.p.onMessage # "null"
      THEN callOnMessage(m1)
      ELSE m1

\* MspParser._processByte
processByte(m, c) ==
  CASE m.p.state = S_IDLE     -> onIdle(m, c)
    [] m.p.state = S_HEADER_M -> onHeaderM(m, c)
    [] m.p.state = S_DIR      -> onDir(m, c)
    [] m.p.state = S_LEN      -> onLen(m, c)
    [] m.p.state = S_CMD      -> onCmd(m, c)
    [] m.p.state = S_PAYLOAD  -> onPayload(m, c)
    [] m.p.state = S_CHECKSUM -> onChecksum(m, c)
    [] OTHER                  -> m

\* MspParser.parse
RECURSIVE parse(_, _)
parse(m, data) ==
  IF data = <<>> THEN m
  ELSE parse(processByte(m, Head(data)), Tail(data))

\* mspEncode with the direction byte folded into the checksum (mutation)
mspEncode_checksumFromDir(c) ==
  LET chk == BitAnd(BitXor(60, c), 255)
  IN  <<ToUint8(36), ToUint8(77), ToUint8(60), ToUint8(0), ToUint8(c), ToUint8(chk)>>

\* mspEncode
mspEncode(c) ==
  LET chk == BitAnd(BitXor(0, c), 255)
  IN  <<ToUint8(36), ToUint8(77), ToUint8(60), ToUint8(0), ToUint8(c), ToUint8(chk)>>

-----------------------------------------------------------------------------
(* msp.js: payload data view helpers.  JavaScript's | and << take their    *)
(* operands as 32-bit two's-complement integers and give one               *)

\* a | b on non-negative integers
RECURSIVE BitOrNat(_, _)
BitOrNat(a, b) ==
  IF a = 0 THEN b
  ELSE IF b = 0 THEN a
  ELSE (IF (a % 2) + (b % 2) > 0 THEN 1 ELSE 0) + (2 * BitOrNat(a \div 2, b \div 2))

\* a | b on signed 32-bit integers, by 16-bit halves
BitOr(a, b) ==
  LET hi == BitOrNat((a \div 65536) % 65536, (b \div 65536) % 65536)
      lo == BitOrNat(a % 65536, b % 65536)
  IN  ((IF hi >= 32768 THEN hi - 65536 ELSE hi) * 65536) + lo

\* x << n for a byte x and 0 < n < 32: the bits shifted past bit 31 are lost
\* and bit 31 is the sign
ShiftLeft(x, n) ==
  LET kept == x % (2 ^ (32 - n))
  IN  IF kept >= 2 ^ (31 - n) THEN (kept - (2 ^ (32 - n))) * (2 ^ n) ELSE kept * (2 ^ n)

\* payload[i]: undefined past the end, which | and << take as 0
ByteAt(payload, i) == IF i < Len(payload) THEN payload[i + 1] ELSE 0

\* readU16
readU16(payload, offset) ==
  BitOr(ByteAt(payload, offset), ShiftLeft(ByteAt(payload, offset + 1), 8))

\* readU32
readU32(payload, offset) ==
  BitOr(BitOr(BitOr(ByteAt(payload, offset),
                    ShiftLeft(ByteAt(payload, offset + 1), 8)),
              ShiftLeft(ByteAt(payload, offset + 2), 16)),
        ShiftLeft(ByteAt(payload, offset + 3), 24))

-----------------------------------------------------------------------------
(* Text: sequences of UTF-16 code units, with the String methods the code  *)
(* uses                                                                    *)

CRLF == <<13, 10>>                                   \* '\r\n'
LF == <<10>>                                         \* '\n'
PROMPT == <<35, 32>>                                 \* '# '
TXT_exit == <<101, 120, 105, 116>>                   \* 'exit'
TXT_set == <<115, 101, 116>>                         \* 'set'
TXT_defaults == <<100, 101, 102, 97, 117, 108, 116, 115>>   \* 'defaults'
EQUALS == <<61>>                                     \* '='

\* What the terminal tab writes on its display
NOTE_set == <<62, 32, 115, 101, 116, 13, 10>>        \* '> set\r\n'
NOTE_defaults == <<62, 32, 100, 101, 102, 97, 117, 108, 116, 115, 13, 10>>   \* '> defaults\r\n'
NOTE_loaded == <<91, 76, 111, 97, 100, 101, 100, 32>>                        \* '[Loaded '
NOTE_parameters ==                                   \* ' parameters]\r\n'
  <<32, 112, 97, 114, 97, 109, 101, 116, 101, 114, 115, 93, 13, 10>>
NOTE_none ==                \* '[No parameters received \u2014 click Load to retry]\r\n'
  <<91, 78, 111, 32, 112, 97, 114, 97, 109, 101, 116, 101, 114, 115, 32, 114, 101,
    99, 101, 105, 118, 101, 100, 32, 8212, 32, 99, 108, 105, 99, 107, 32, 76, 111,
    97, 100, 32, 116, 111, 32, 114, 101, 116, 114, 121, 93, 13, 10>>
NOTE_exit ==                \* 'Click a tab on the left to exit the terminal.\r\n'
  <<67, 108, 105, 99, 107, 32, 97, 32, 116, 97, 98, 32, 111, 110, 32, 116, 104, 101,
    32, 108, 101, 102, 116, 32, 116, 111, 32, 101, 120, 105, 116, 32, 116, 104, 101,
    32, 116, 101, 114, 109, 105, 110, 97, 108, 46, 13, 10>>

\* Positions (from 0) at which pat occurs in str
Occurrences(str, pat) ==
  {i \in 0 .. (Len(str) - Len(pat)) : SubSeq(str, i + 1, i + Len(pat)) = pat}

\* String.prototype.indexOf
IndexOf(str, pat) ==
  IF Occurrences(str, pat) = {} THEN -1
  ELSE CHOOSE i \in Occurrences(str, pat) : \A j \in Occurrences(str, pat) : i <= j

\* String.prototype.lastIndexOf
LastIndexOf(str, pat) ==
  IF Occurrences(str, pat) = {} THEN -1
  ELSE CHOOSE i \in Occurrences(str, pat) : \A j \in Occurrences(str, pat) : i >= j

\* String.prototype.includes
Includes(str, pat) == IndexOf(str, pat) >= 0

\* String.prototype.substring(a, b) and substring(a), for 0 <= a <= b <= length
Substring(str, a, b) == SubSeq(str, a + 1, b)
SubstringFrom(str, a) == SubSeq(str, a + 1, Len(str))

\* White space and line terminators, which String.prototype.trim removes
WhiteSpace ==
  {9, 10, 11, 12, 13, 32, 160, 5760, 8232, 8233, 8239, 8287, 12288, 65279}
  \cup (8192 .. 8202)

\* String.prototype.trim
RECURSIVE Trim(_)
Trim(str) ==
  IF str = <<>> THEN str
  ELSE IF Head(str) \in WhiteSpace THEN Trim(Tail(str))
  ELSE IF str[Len(str)] \in WhiteSpace THEN Trim(SubSeq(str, 1, Len(str) - 1))
  ELSE str

\* String.prototype.split on a separator that is not empty
RECURSIVE Split(_, _)
Split(str, sep) ==
  IF IndexOf(str, sep) < 0 THEN <<str>>
  ELSE <<Substring(str, 0, IndexOf(str, sep))>>
         \o Split(SubstringFrom(str, IndexOf(str, sep) + Len(sep)), sep)

\* The decimal digits of a non-negative integer, as a template literal prints it
RECURSIVE Decimal(_)
Decimal(n) ==
  IF n < 10 THEN <<48 + n>> ELSE Decimal(n \div 10) \o <<48 + (n % 10)>>

\* TextEncoder.encode: UTF-8 of each code unit (no surrogate pairs in the model)
RECURSIVE TextEncode(_)
TextEncode(str) ==
  IF str = <<>> THEN <<>>
  ELSE LET u == Head(str)
           b == IF u < 128 THEN <<u>>
                ELSE IF u < 2048 THEN <<192 + (u \div 64), 128 + (u % 64)>>
                ELSE <<224 + (u \div 4096), 128 + ((u \div 64) % 64), 128 + (u % 64)>>
       IN  b \o TextEncode(Tail(str))

\* TextDecoder.decode(data, { stream: true }) on the device text of the model,
\* which is ASCII: a byte below 0x80 is one code unit; any other byte of the
\* model stands alone and decodes to U+FFFD
RECURSIVE TextDecode(_)
TextDecode(data) ==
  IF data = <<>> THEN <<>>
  ELSE <<IF Head(data) < 128 THEN Head(data) ELSE 65533>> \o TextDecode(Tail(data))

-----------------------------------------------------------------------------
(* The runtime: timers and the transport                                   *)

\* Ids of timers that are pending or still held in a variable of the program
UsedTimerIds(w) == {t.id : t \in w.timers} \cup {w.captureTimer, w.pollTimer}

\* The id setTimeout or setInterval returns: one never handed out and still in use
FreshTimerId(w) ==
  CHOOSE i \in 1 .. (Cardinality(UsedTimerIds(w)) + 1) :
    /\ i \notin UsedTimerIds(w)
    /\ \A j \in 1 .. (i - 1) : j \in UsedTimerIds(w)

\* setTimeout / setInterval: kind names the callback, sess the capture session
\* a deadline is armed for
AddTimer(w, id, kind, sess) ==
  [w EXCEPT !.timers = @ \cup {[id |-> id, kind |-> kind, sess |-> sess]}]

\* clearTimeout / clearInterval
ClearTimer(w, id) == [w EXCEPT !.timers = {t \in @ : t.id # id}]

\* What becomes of a write issued now: without a writer Serial.write returns
\* at once; a writer whose port has lost the device (the read loop has ended,
\* the writer is still held) rejects the write; else the bytes are sent
writeOutcome(w) ==
  IF ~w.writer THEN "none" ELSE IF w.reader THEN "sent" ELSE "rejected"

\* Serial.write: the bytes sent go out in call order
serialWrite(w, data) ==
  IF writeOutcome(w) # "sent" THEN w
  ELSE LET log == Append(w.writes, [data |-> data, cli |-> w.inCliMode,
                                   route |-> w.onReceive])
       IN  [w EXCEPT !.writes = IF Len(log) > w.logDepth THEN Tail(log) ELSE log]

\* A new suspended async function
Task(pc, cont, target, n) == [pc |-> pc, cont |-> cont, target |-> target, n |-> n]

Suspend(w, t) == [w EXCEPT !.tasks = Append(@, t)]

RemoveAt(seq, i) == SubSeq(seq, 1, i - 1) \o SubSeq(seq, i + 1, Len(seq))

\* await serial.write(...) and the sleep after it, in the async function t: a
\* rejected write throws and the function is abandoned, else it is suspended
awaitSettle(w, before, t) ==
  IF writeOutcome(before) = "rejected" THEN w ELSE Suspend(w, t)

-----------------------------------------------------------------------------
(* cli.js                                                                  *)

\* switchToMsp / switchToCli (app.js), the callbacks handed to enterCli and exitCli
switchReceiver(w, cb) ==
  [w EXCEPT !.onReceive = IF cb = "switchToCli" THEN "cli" ELSE "msp"]

\* sendCommand
sendCommand(w, cmd) == serialWrite(w, TextEncode(cmd \o CRLF))

\* enterCli that writes the trigger byte before it switches (mutation)
enterCliBody_writeFirst(w, cb) ==
  switchReceiver([serialWrite(w, <<35>>) EXCEPT !.inCliMode = TRUE], cb)

\* enterCli past its guard, up to its awaits: mode, routing, trigger byte
enterCliBody(w, cb) ==
  serialWrite(switchReceiver([w EXCEPT !.inCliMode = TRUE], cb), <<35>>)

\* exitCli that switches before it sends the exit command (mutation)
exitCliSend_switchFirst(w) ==
  sendCommand(switchReceiver([w EXCEPT !.inCliMode = FALSE], "switchToMsp"), TXT_exit)

\* exitCli past its guard, up to its awaits: the exit command
exitCliSend(w) == sendCommand(w, TXT_exit)

\* exitCli that leaves the routing on the text path (mutation)
exitCliFinish_keepRouting(w, cb) == [w EXCEPT !.inCliMode = FALSE]

\* exitCli after its awaits: mode, routing
exitCliFinish(w, cb) == switchReceiver([w EXCEPT !.inCliMode = FALSE], cb)

\* cliReset that also rebinds the routing (mutation)
cliReset_rebind(w) == switchReceiver([w EXCEPT !.inCliMode = FALSE], "switchToMsp")

\* cliReset
cliReset(w) == [w EXCEPT !.inCliMode = FALSE]

-----------------------------------------------------------------------------
(* tabs/terminal.js                                                        *)

\* appendOutput
appendOutput(w, text) ==
  IF ~w.termOutput.el THEN w
  ELSE [w EXCEPT !.termOutput.textContent = @ \o text]

\* onTerminalActivate
onTerminalActivate(w) == [w EXCEPT !.autoLoadPending = TRUE]

\* onTerminalDeactivate
onTerminalDeactivate(w) ==
  LET w1 == [w EXCEPT !.capturing = FALSE, !.captureBuffer = <<>>,
                      !.autoLoadPending = FALSE,
                      !.lastFinish = IF w.capturing
                                     THEN [by |-> "deactivate", sess |-> w.captureSeq, timer |-> 0]
                                     ELSE @]
  IN  IF w1.captureTimer # 0
      THEN [ClearTimer(w1, w1.captureTimer) EXCEPT !.captureTimer = 0]
      ELSE w1

\* finishCapture that does not cut the prompt off (mutation)
CleanCapture_keepPrompt(buffer) ==
  LET echoEnd == IndexOf(buffer, LF)
  IN  IF echoEnd >= 0 /\ Includes(Substring(buffer, 0, echoEnd), TXT_set)
      THEN SubstringFrom(buffer, echoEnd + 1)
      ELSE buffer

\* The text finishCapture goes on to parse: the buffer cut at the last
\* prompt, then without its first line if that line contains 'set'
CleanCapture(buffer) ==
  LET promptIdx == LastIndexOf(buffer, PROMPT)
      c1 == IF promptIdx >= 0 THEN Substring(buffer, 0, promptIdx) ELSE buffer
      echoEnd == IndexOf(c1, LF)
  IN  IF echoEnd >= 0 /\ Includes(Substring(c1, 0, echoEnd), TXT_set)
      THEN SubstringFrom(c1, echoEnd + 1)
      ELSE c1

\* The Map finishCapture builds from the lines 'name = value' of the text,
\* the lines taken from first to last: a later value of a name replaces the
\* earlier one
RECURSIVE ParseLines(_, _)
ParseLines(lines, params) ==
  IF lines = <<>> THEN params
  ELSE LET trimmed == Trim(Head(lines))
           eqIdx   == IndexOf(trimmed, EQUALS)
           name    == Trim(Substring(trimmed, 0, eqIdx))
           value   == Trim(SubstringFrom(trimmed, eqIdx + 1))
       IN  IF trimmed = <<>> \/ eqIdx < 0 \/ name = <<>> \/ value = <<>>
           THEN ParseLines(Tail(lines), params)
           ELSE ParseLines(Tail(lines),
                           [n \in (DOMAIN params) \cup {name} |->
                              IF n = name THEN value ELSE params[n]])

ParseParams(content) == ParseLines(Split(content, LF), [n \in {} |-> <<>>])

\* finishCapture; by and tsess record who called it (the prompt check, or the
\* deadline armed for session tsess)
finishCapture(w, by, tsess) ==
  LET w1 == [w EXCEPT !.capturing = FALSE,
                      !.lastFinish = [by |-> by, sess |-> w.captureSeq, timer |-> tsess]]
      w2 == IF w1.captureTimer # 0
            THEN [ClearTimer(w1, w1.captureTimer) EXCEPT !.captureTimer = 0]
            ELSE w1
      w3 == [w2 EXCEPT !.cleaned = CleanCapture(w.captureBuffer)]
      size == Cardinality(DOMAIN ParseParams(w3.cleaned))
  IN  IF size > 0
      THEN IF ~w3.silentLoad
           THEN appendOutput(w3, NOTE_loaded \o Decimal(size) \o NOTE_parameters)
           ELSE w3
      ELSE appendOutput(w3, NOTE_none)

\* loadSettings after its await: the deadline is armed
loadSettingsArm(w, sess) ==
  LET id == FreshTimerId(w)
  IN  [AddTimer(w, id, "deadline", sess) EXCEPT !.captureTimer = id]

\* loadSettings past its guard: up to its await; the rest runs at once when
\* nothing was written (no writer), when the write has completed if it was
\* sent, and never if it was rejected
loadSettingsBegin(w, silent) ==
  LET w1 == [w EXCEPT !.silentLoad = silent, !.captureBuffer = <<>>,
                      !.capturing = TRUE, !.captureSeq = @ + 1]
      w2 == IF ~silent THEN appendOutput(w1, NOTE_set) ELSE w1
      w3 == sendCommand(w2, TXT_set)
  IN  CASE writeOutcome(w) = "sent" ->
             Suspend(w3, Task("loadSettings", "none", "none", w1.captureSeq))
        [] writeOutcome(w) = "rejected" -> w3
        [] OTHER -> loadSettingsArm(w3, w1.captureSeq)

\* loadSettings without its capturing guard (mutation)
loadSettings_noGuard(w, silent) == loadSettingsBegin(w, silent)

\* loadSettings(preserveOriginals, silent)
loadSettings(w, silent) ==
  IF w.capturing THEN w ELSE loadSettingsBegin(w, silent)

\* The deadline callback: if (capturing) finishCapture()
onDeadline(w, t) ==
  IF w.capturing THEN finishCapture(w, "timer", t.sess) ELSE w

\* loadDefaults up to its awaits
loadDefaults(w) ==
  IF w.capturing THEN w
  ELSE LET w1 == appendOutput(w, NOTE_defaults)
       IN  awaitSettle(sendCommand(w1, TXT_defaults), w,
                       Task("loadDefaults", "none", "none", 0))

\* onCliText that also shows what it captures (mutation)
onCliText_showCaptured(w, text) ==
  IF w.capturing
  THEN LET w1 == [appendOutput(w, text) EXCEPT !.captureBuffer = @ \o text]
       IN  IF Includes(w1.captureBuffer, PROMPT) THEN finishCapture(w1, "prompt", 0) ELSE w1
  ELSE LET w1 == appendOutput(w, text)
       IN  IF w.autoLoadPending /\ Includes(text, PROMPT)
           THEN AddTimer([w1 EXCEPT !.autoLoadPending = FALSE],
                         FreshTimerId(w1), "autoLoad", 0)
           ELSE w1

\* onCliText that begins the auto-load at once (mutation)
onCliText_loadAtOnce(w, text) ==
  IF w.capturing
  THEN LET w1 == [w EXCEPT !.captureBuffer = @ \o text]
       IN  IF Includes(w1.captureBuffer, PROMPT) THEN finishCapture(w1, "prompt", 0) ELSE w1
  ELSE LET w1 == appendOutput(w, text)
       IN  IF w.autoLoadPending /\ Includes(text, PROMPT)
           THEN loadSettings([w1 EXCEPT !.autoLoadPending = FALSE], TRUE)
           ELSE w1

\* onCliText
onCliText(w, text) ==
  IF w.capturing
  THEN LET w1 == [w EXCEPT !.captureBuffer = @ \o text]
       IN  IF Includes(w1.captureBuffer, PROMPT) THEN finishCapture(w1, "prompt", 0) ELSE w1
  ELSE LET w1 == appendOutput(w, text)
       IN  IF w.autoLoadPending /\ Includes(text, PROMPT)
           THEN AddTimer([w1 EXCEPT !.autoLoadPending = FALSE],
                         FreshTimerId(w1), "autoLoad", 0)
           ELSE w1

\* cliParse (cli.js)
cliParse(w, data) ==
  IF ~w.inCliMode THEN w
  ELSE IF w.onTextReceive # "null" THEN onCliText(w, TextDecode(data)) ELSE w

-----------------------------------------------------------------------------
(* The device side of the MSP link: response frames as the parser accepts  *)
(* them, $ M > len cmd payload checksum                                    *)

RECURSIVE XorAll(_)
XorAll(bytes) ==
  IF bytes = <<>> THEN 0 ELSE BitXor(Head(bytes), XorAll(Tail(bytes)))

FrameChecksum(c, P) == XorAll(<<Len(P), c>> \o P)

\* The bytes of one item the device sends
ItemBytes(it) == <<36, 77, 62, Len(it.payload), it.cmd>> \o it.payload \o <<it.chk>>

RECURSIVE WireOf(_)
WireOf(items) ==
  IF items = <<>> THEN <<>>
  ELSE IF Head(items).kind = "echo" THEN WireOf(Tail(items))
  ELSE ItemBytes(Head(items)) \o WireOf(Tail(items))

SeqsUpTo(S, n) == UNION {[1 .. k -> S] : k \in 0 .. n}

ValidItem(c, P) ==
  [kind |-> "frame", cmd |-> c, payload |-> P, chk |-> FrameChecksum(c, P)]

CorruptItem(c, P, x) ==
  [kind |-> "corrupt", cmd |-> c, payload |-> P, chk |-> x]

EchoItem(c) ==
  [kind |-> "echo", cmd |-> c, payload |-> <<>>, chk |-> c]

ValidItems(n) == {ValidItem(c, P) : c \in CmdSet, P \in SeqsUpTo(PayloadBytes, n)}

\* A frame whose checksum byte is replaced by a different byte
CorruptItems ==
  UNION {{CorruptItem(a.cmd, a.payload, x) : x \in CorruptBytes \ {a.chk}} :
           a \in ValidItems(MaxPayload)}

\* The valid frame that follows a corrupted one
ProbeItems == {ValidItem(108, <<>>), ValidItem(36, <<255, 0>>)}

\* The second frame of a pair
SecondItems == {ValidItem(0, <<>>), ValidItem(108, <<36>>), ValidItem(36, <<255, 0>>)}

\* One valid frame; a corrupted frame and then a valid one; two valid frames;
\* a request of the host looped back as a response
Scenarios ==
  {<<a>> : a \in ValidItems(MaxPayload)}
  \cup {<<a, b>> : a \in CorruptItems, b \in ProbeItems}
  \cup {<<a, b>> : a \in ValidItems(MaxPayload), b \in SecondItems}
  \cup {<<EchoItem(c)>> : c \in AllCmds}

\* The messages handed to the handler, with the payload bytes as they are now
Decoded(ms, h) == [i \in 1 .. Len(ms) |-> [cmd |-> ms[i].cmd, payload |-> h[ms[i].payload]]]

\* The frames the device sent whole and valid
RECURSIVE Expected(_)
Expected(items) ==
  IF items = <<>> THEN <<>>
  ELSE IF Head(items).kind = "corrupt" THEN Expected(Tail(items))
  ELSE <<[cmd |-> Head(items).cmd, payload |-> Head(items).payload]>> \o Expected(Tail(items))

-----------------------------------------------------------------------------
(* Codec specification: the parser with a recording handler, fed the wire  *)
(* in chunks of any size                                                   *)

\* No read accessor has been called
NoProbe == [fn |-> "none", payload |-> <<>>, offset |-> 0, value |-> 0]

\* The state when the page has loaded: nothing connected
Boot ==
  [parser |-> NewParser, heap |-> NewHeap, port |-> FALSE, reader |-> FALSE,
   writer |-> FALSE, onReceive |-> "null",
   inCliMode |-> FALSE, onTextReceive |-> "null", pollTimer |-> 0,
   activeTab |-> "status", capturing |-> FALSE, captureBuffer |-> <<>>,
   captureTimer |-> 0, autoLoadPending |-> FALSE, silentLoad |-> FALSE,
   termOutput |-> [el |-> FALSE, textContent |-> <<>>], timers |-> {}, tasks |-> <<>>,
   msgs |-> <<>>, writes |-> <<>>, logDepth |-> LogDepth, events |-> 0, cleaned |-> <<>>,
   lastFinish |-> [by |-> "none", sess |-> 0, timer |-> 0], captureSeq |-> 0,
   wire |-> <<>>, sent |-> <<>>, chunks |-> 0, request |-> <<>>, calls |-> <<>>, fed |-> <<>>,
   probe |-> NoProbe]

\* The state is the record w
InitIs(w) ==
  /\ parser = w.parser /\ heap = w.heap
  /\ port = w.port /\ reader = w.reader /\ writer = w.writer
  /\ onReceive = w.onReceive /\ inCliMode = w.inCliMode
  /\ onTextReceive = w.onTextReceive /\ pollTimer = w.pollTimer
  /\ activeTab = w.activeTab /\ capturing = w.capturing
  /\ captureBuffer = w.captureBuffer /\ captureTimer = w.captureTimer
  /\ autoLoadPending = w.autoLoadPending /\ timers = w.timers
  /\ silentLoad = w.silentLoad /\ termOutput = w.termOutput
  /\ tasks = w.tasks /\ msgs = w.msgs /\ writes = w.writes
  /\ logDepth = w.logDepth /\ events = w.events
  /\ cleaned = w.cleaned /\ lastFinish = w.lastFinish
  /\ captureSeq = w.captureSeq /\ wire = w.wire /\ sent = w.sent
  /\ chunks = w.chunks /\ request = w.request /\ calls = w.calls /\ fed = w.fed
  /\ probe = w.probe

\* A port open with the routing slot on the binary decoder and a handler that
\* records each message
Wired == [Boot EXCEPT !.port = TRUE, !.reader = TRUE, !.writer = TRUE, !.onReceive = "msp",
                      !.parser.onMessage = "record"]

CodecInit ==
  \E sc \in Scenarios : InitIs([Wired EXCEPT !.sent = sc, !.wire = WireOf(sc)])

\* MspParser.parse on the parser of the program
parserParse(w, data) ==
  LET m == parse(Machine(w.parser, w.heap, w.msgs), data)
  IN  [w EXCEPT !.parser = m.p, !.heap = m.heap, !.msgs = m.msgs]

\* The read loop hands a chunk to serial.onReceive
readLoop(w, data) ==
  CASE w.onReceive = "msp" -> parserParse(w, data)
    [] w.onReceive = "cli" -> cliParse(w, data)
    [] OTHER               -> w

\* One receive callback with the first k bytes on the wire
Receive(k) ==
  /\ reader
  /\ k \in 1 .. Len(wire)
  /\ Commit([readLoop(World, SubSeq(wire, 1, k)) EXCEPT
               !.wire = SubSeq(wire, k + 1, Len(wire)),
               !.chunks = IF chunks < ChunkCap THEN chunks + 1 ELSE chunks])

\* The host encodes a request; it comes back with the direction byte set to '>'
Echo ==
  /\ sent # <<>>
  /\ sent[1].kind = "echo"
  /\ request = <<>>
  /\ Commit([World EXCEPT !.request = mspEncode(sent[1].cmd),
                          !.wire = [mspEncode(sent[1].cmd) EXCEPT ![3] = 62]])

CodecNext ==
  \/ \E k \in 1 .. Len(wire) : Receive(k)
  \/ Echo

CodecSpec == CodecInit /\ [][CodecNext]_vars

-----------------------------------------------------------------------------
(* app.js                                                                  *)

MSP_API_VERSION == 1
MSP_FC_VARIANT == 2
MSP_FC_VERSION == 3
MSP_BOARD_INFO == 4
MSP_STATUS == 101
MSP_RAW_IMU == 102
MSP_RC == 105
MSP_ATTITUDE == 108
MSP_ANALOG == 110

\* parser.reset() that leaves the state alone (mutation)
parserReset_keepState(w) == w

\* parser.reset()
parserReset(w) == [w EXCEPT !.parser.state = S_IDLE]

\* startPolling that also binds the routing to the binary path (mutation)
startPolling_rebind(w) ==
  LET id == FreshTimerId(w)
      w1 == [w EXCEPT !.onReceive = "msp"]
  IN  IF w.pollTimer # 0 THEN w1
      ELSE [AddTimer(w1, id, "poll", 0) EXCEPT !.pollTimer = id]

\* startPolling
startPolling(w) ==
  IF w.pollTimer # 0 THEN w
  ELSE LET id == FreshTimerId(w)
       IN  [AddTimer(w, id, "poll", 0) EXCEPT !.pollTimer = id]

\* stopPolling
stopPolling(w) ==
  parserReset(IF w.pollTimer # 0
              THEN [ClearTimer(w, w.pollTimer) EXCEPT !.pollTimer = 0]
              ELSE w)

\* restartPolling without clearInterval (mutation)
restartPolling_noClear(w) ==
  IF ~isConnected(w) \/ w.activeTab = "terminal" THEN w
  ELSE LET id == FreshTimerId(w)
       IN  [AddTimer(w, id, "poll", 0) EXCEPT !.pollTimer = id]

\* restartPolling
restartPolling(w) ==
  IF ~isConnected(w) \/ w.activeTab = "terminal" THEN w
  ELSE LET w1 == IF w.pollTimer # 0 THEN ClearTimer(w, w.pollTimer) ELSE w
           id == FreshTimerId(w1)
       IN  [AddTimer(w1, id, "poll", 0) EXCEPT !.pollTimer = id]

\* The commands pollActiveTab collects for a tab
PollCommands(tab) ==
  CASE tab = "status"   -> <<MSP_STATUS, MSP_ATTITUDE, MSP_ANALOG>>
    [] tab = "receiver" -> <<MSP_STATUS, MSP_RC>>
    [] tab = "sensors"  -> <<MSP_STATUS, MSP_RAW_IMU>>
    [] OTHER            -> <<MSP_STATUS>>

\* The loop of pollActiveTab from command n of the list collected for tab: each
\* write that went to a writer is awaited
RECURSIVE pollLoop(_, _, _)
pollLoop(w, tab, n) ==
  IF n > Len(PollCommands(tab)) THEN w
  ELSE CASE writeOutcome(w) = "sent" ->
              Suspend(serialWrite(w, mspEncode(PollCommands(tab)[n])),
                      Task("pollActiveTab", "none", tab, n))
         [] writeOutcome(w) = "rejected" -> w
         [] OTHER -> pollLoop(w, tab, n + 1)

\* pollActiveTab
pollActiveTab(w) ==
  IF ~isConnected(w) THEN w ELSE pollLoop(w, w.activeTab, 1)

\* The requests of queryIdentity, in order
IdentityCommands == <<MSP_API_VERSION, MSP_FC_VARIANT, MSP_FC_VERSION, MSP_BOARD_INFO>>

\* queryIdentity from request n: the write, then the sleep; after the last
\* sleep polling starts
queryIdentityFrom(w, n) ==
  IF n > Len(IdentityCommands) THEN startPolling(w)
  ELSE awaitSettle(serialWrite(w, mspEncode(IdentityCommands[n])), w,
                   Task("queryIdentity", "none", "none", n))

\* queryIdentity
queryIdentity(w) == queryIdentityFrom(w, 1)

\* initTerminal: setCliReceiver(onCliText)
initTerminal(w) == [w EXCEPT !.onTextReceive = "onCliText", !.termOutput.el = TRUE]

\* onConnect
onConnect(w) ==
  queryIdentity(initTerminal([w EXCEPT !.onReceive = "msp",
                                       !.parser.onMessage = "handleMessage"]))

\* activateTab
activateTab(w, target) == [w EXCEPT !.activeTab = target]

\* onDisconnect without cliReset (mutation)
onDisconnect_keepMode(w) ==
  LET w1 == stopPolling(w)
  IN  IF w1.activeTab = "terminal" THEN activateTab(w1, "status") ELSE w1

\* onDisconnect
onDisconnect(w) ==
  LET w1 == cliReset(stopPolling(w))
  IN  IF w1.activeTab = "terminal" THEN activateTab(w1, "status") ELSE w1

\* The read loop ends (the device is gone, or the reader was cancelled): its
\* finally drops the reader and calls serial.onDisconnect, bound by onConnect
readLoopEnd(w) == onDisconnect([w EXCEPT !.reader = FALSE])

\* Serial.disconnect up to its await of port.close(): reader.cancel() ends the
\* read loop, whose finally runs before the cancel has settled, then the
\* reader and the writer are dropped
serialDisconnect(w) ==
  [(IF w.reader THEN readLoopEnd(w) ELSE w) EXCEPT !.reader = FALSE, !.writer = FALSE]

\* The button while connected, after its exitCli: stopPolling and
\* serial.disconnect; onDisconnect follows once the port has closed
disconnectTail(w) ==
  LET w1 == serialDisconnect(stopPolling(w))
  IN  IF w1.port THEN Suspend(w1, Task("disconnect", "none", "none", 0))
      ELSE onDisconnect(w1)

\* The tab click handler from its last if
tabClickTail(w, wasTerminal, goingToTerminal) ==
  IF ~wasTerminal /\ ~goingToTerminal /\ isConnected(w) THEN restartPolling(w) ELSE w

-----------------------------------------------------------------------------
(* Stream specification: the parser with a recording handler is handed any *)
(* bytes one by one; reset() is called at most once, at any point, and a   *)
(* whole valid frame may follow it in one chunk                            *)

\* '$', 'M', '>', and the bytes 0 and 2
StreamBytes == {36, 77, 62, 0, 2}

StreamInit == InitIs(Wired)

\* One byte arrives
FeedByte(c) ==
  /\ Len(fed) < MaxStream
  /\ Commit([parserParse(World, <<c>>) EXCEPT !.fed = Append(@, c)])

\* parser.reset() is called
Reset ==
  /\ Len(fed) <= MaxStream
  /\ \A i \in 1 .. Len(fed) : fed[i] # -1
  /\ Commit([parserReset(World) EXCEPT !.fed = Append(@, -1)])

\* A whole valid frame arrives right after the reset
FeedFrame(it) ==
  /\ fed # <<>>
  /\ fed[Len(fed)] = -1
  /\ Commit([parserParse(World, ItemBytes(it)) EXCEPT !.fed = @ \o ItemBytes(it)])

StreamNext ==
  \/ \E c \in StreamBytes : FeedByte(c)
  \/ Reset
  \/ \E it \in ProbeItems : FeedFrame(it)

StreamSpec == StreamInit /\ [][StreamNext]_vars

-----------------------------------------------------------------------------
(* Accessor specification: a handler reads a 16-bit or a 32-bit field at   *)
(* any in-range offset of any payload                                      *)

\* The smallest, the largest and the two middle byte values, and 1
ProbeBytes == {0, 1, 127, 128, 255}

\* The payloads read
ProbePayloads == [1 .. ProbeLen -> ProbeBytes]

\* A payload and an offset are chosen and no accessor has been called
ReadInit ==
  \E payload \in ProbePayloads, offset \in 0 .. (ProbeLen - 2) :
    InitIs([Boot EXCEPT !.probe.payload = payload, !.probe.offset = offset])

CallReadU16 ==
  /\ probe.fn = "none"
  /\ probe.offset + 2 <= Len(probe.payload)
  /\ Commit([World EXCEPT !.probe.fn = "readU16",
                          !.probe.value = readU16(probe.payload, probe.offset)])

CallReadU32 ==
  /\ probe.fn = "none"
  /\ probe.offset + 4 <= Len(probe.payload)
  /\ Commit([World EXCEPT !.probe.fn = "readU32",
                          !.probe.value = readU32(probe.payload, probe.offset)])

ReadNext ==
  \/ CallReadU16
  \/ CallReadU32

ReadSpec == ReadInit /\ [][ReadNext]_vars

-----------------------------------------------------------------------------
(* Resuming a suspended async function                                     *)

\* What the caller of enterCli or exitCli does when the call returns: the tab
\* click handler that left the terminal resets the parser, starts polling and
\* activates the target; the one that entered it has only its last if left
afterAwait(w, t) ==
  CASE t.cont = "tabLeave" ->
         tabClickTail(activateTab(startPolling(parserReset(w)), t.target), TRUE, FALSE)
    [] t.cont = "tabEnter" -> tabClickTail(w, FALSE, TRUE)
    [] t.cont = "disconnect" -> disconnectTail(w)
    [] OTHER               -> w

\* enterCli without its guard (mutation)
callEnterCli_noGuard(w, cb, cont, target) ==
  Suspend(enterCliBody(w, cb), Task("enterCli", cont, target, 0))

\* enterCli with its guard; cont names the caller's continuation
callEnterCli(w, cb, cont, target) ==
  IF w.inCliMode THEN afterAwait(w, Task("enterCli", cont, target, 0))
  ELSE awaitSettle(enterCliBody(w, cb), w, Task("enterCli", cont, target, 0))

\* exitCli without its guard (mutation)
callExitCli_noGuard(w, cont, target) ==
  Suspend(exitCliSend(w), Task("exitCli", cont, target, 0))

\* exitCli with its guard
callExitCli(w, cont, target) ==
  IF ~w.inCliMode THEN afterAwait(w, Task("exitCli", cont, target, 0))
  ELSE awaitSettle(exitCliSend(w), w, Task("exitCli", cont, target, 0))

\* The tab click handler that leaves the capture as it is (mutation)
tabClick_keepCapture(w, target) ==
  IF target = w.activeTab THEN w
  ELSE LET wasTerminal     == w.activeTab = "terminal"
           goingToTerminal == target = "terminal"
       IN  IF wasTerminal /\ isConnected(w)
           THEN callExitCli(w, "tabLeave", target)
           ELSE LET w1 == activateTab(w, target)
                IN  IF goingToTerminal /\ isConnected(w1)
                    THEN callEnterCli(onTerminalActivate(stopPolling(w1)),
                                      "switchToCli", "tabEnter", target)
                    ELSE tabClickTail(w1, wasTerminal, goingToTerminal)

\* The tab click handler
tabClick(w, target) ==
  IF target = w.activeTab THEN w
  ELSE LET wasTerminal     == w.activeTab = "terminal"
           goingToTerminal == target = "terminal"
       IN  IF wasTerminal /\ isConnected(w)
           THEN callExitCli(onTerminalDeactivate(w), "tabLeave", target)
           ELSE LET w1 == activateTab(w, target)
                IN  IF goingToTerminal /\ isConnected(w1)
                    THEN callEnterCli(onTerminalActivate(stopPolling(w1)),
                                      "switchToCli", "tabEnter", target)
                    ELSE tabClickTail(w1, wasTerminal, goingToTerminal)

\* The button while serial.connected holds
disconnectClick(w) ==
  IF w.activeTab = "terminal" THEN callExitCli(w, "disconnect", "none")
  ELSE disconnectTail(w)

\* The Enter key handler without the block on 'exit' (mutation)
onInputKey_sendAll(w, value) ==
  LET cmd == Trim(value)
  IN  IF cmd = <<>> THEN w
      ELSE sendCommand(w, cmd)

\* onInputKey for the Enter key, with value in the input line; sendCommand is
\* not awaited
onInputKey(w, value) ==
  LET cmd == Trim(value)
  IN  IF cmd = <<>> THEN w
      ELSE IF cmd = TXT_exit THEN appendOutput(w, NOTE_exit)
      ELSE sendCommand(w, cmd)

\* The awaits of task i are over: the function runs on to its next await
resume(w, i) ==
  LET t  == w.tasks[i]
      w1 == [w EXCEPT !.tasks = RemoveAt(@, i)]
  IN  CASE t.pc = "enterCli"     -> afterAwait(w1, t)
        [] t.pc = "exitCli"      -> afterAwait(exitCliFinish(w1, "switchToMsp"), t)
        [] t.pc = "loadSettings" -> loadSettingsArm(w1, t.n)
        [] t.pc = "loadDefaults" -> loadSettings(w1, TRUE)
        [] t.pc = "pollActiveTab" -> pollLoop(w1, t.target, t.n + 1)
        [] t.pc = "queryIdentity" -> queryIdentityFrom(w1, t.n + 1)
        [] t.pc = "disconnect"   -> onDisconnect([w1 EXCEPT !.port = FALSE])
        [] OTHER                 -> w1

Resume(i) ==
  /\ i \in 1 .. Len(tasks)
  /\ Commit(resume(World, i))

\* A pending timer fires: a timeout is gone once it has fired, an interval stays
fire(w, t) ==
  CASE t.kind = "deadline" -> onDeadline([w EXCEPT !.timers = @ \ {t}], t)
    [] t.kind = "autoLoad" -> loadSettings([w EXCEPT !.timers = @ \ {t}], TRUE)
    [] t.kind = "poll"     -> pollActiveTab(w)
    [] OTHER               -> w

TimerFire(t) ==
  /\ t \in timers
  /\ Commit(fire(World, t))

-----------------------------------------------------------------------------
(* Mode switch specification: a caller that invokes enterCli, exitCli and  *)
(* cliReset on an open port, in any order and at any time                  *)

CliInit == InitIs([Wired EXCEPT !.logDepth = MaxCalls])

CallEnterCli ==
  /\ Len(calls) < MaxCalls
  /\ Commit(callEnterCli([World EXCEPT !.calls = Append(@, "enterCli")],
                         "switchToCli", "caller", "none"))

\* enterCli handed the callback that binds the binary path
CallEnterCliMsp ==
  /\ Len(calls) < MaxCalls
  /\ Commit(callEnterCli([World EXCEPT !.calls = Append(@, "enterCli(switchToMsp)")],
                         "switchToMsp", "caller", "none"))

CallExitCli ==
  /\ Len(calls) < MaxCalls
  /\ Commit(callExitCli([World EXCEPT !.calls = Append(@, "exitCli")],
                        "caller", "none"))

\* What the device sends in one chunk while the caller switches modes: the
\* first byte, or the first two bytes, of a frame
FrameStarts == {<<36>>, <<36, 77>>}

\* The read loop delivers a chunk
CliReceive(data) ==
  /\ reader
  /\ Commit(readLoop(World, data))

CallCliReset ==
  /\ Len(calls) < MaxCalls
  /\ Commit(cliReset([World EXCEPT !.calls = Append(@, "cliReset")]))

CliNext ==
  \/ CallEnterCli
  \/ CallEnterCliMsp
  \/ CallExitCli
  \/ CallCliReset
  \/ \E data \in FrameStarts : CliReceive(data)
  \/ \E i \in 1 .. Len(tasks) : Resume(i)

CliSpec == CliInit /\ [][CliNext]_vars

-----------------------------------------------------------------------------
(* Capture specification: the terminal tab is open and the link is in      *)
(* Command mode; the device sends one text, delivered in chunks of any     *)
(* size, while the user may click Load                                     *)

\* '#', ' ', '\n', 'x'
TextAlphabet == {35, 32, 10, 120}

SampleResponses ==
  { <<111, 107, 13, 10, 35, 32>>,                           \* 'ok\r\n# '
    <<115, 101, 116, 13, 10, 97, 61, 49, 13, 10, 35, 32>>,  \* 'set\r\na=1\r\n# '
    <<114, 101, 115, 101, 116, 10, 35, 32>>,                \* 'reset\n# '
    <<97, 61, 49, 10, 115, 101, 116, 10, 35, 32>>,          \* 'a=1\nset\n# '
    <<97, 61, 49, 13, 10>>,                                 \* 'a=1\r\n'
    <<111, 102, 102, 115, 101, 116, 61, 49, 10, 35, 32>> }  \* 'offset=1\n# '

Responses == SeqsUpTo(TextAlphabet, MaxText) \cup SampleResponses

\* The terminal tab right after it was entered: Command mode, routing on the
\* text path, the auto-load armed, polling stopped
TerminalReady ==
  [Boot EXCEPT !.port = TRUE, !.reader = TRUE, !.writer = TRUE,
               !.onReceive = "cli", !.inCliMode = TRUE,
               !.onTextReceive = "onCliText", !.termOutput.el = TRUE,
               !.activeTab = "terminal",
               !.parser.onMessage = "handleMessage", !.autoLoadPending = TRUE]

CaptureInit ==
  \E r \in Responses, auto \in BOOLEAN :
    InitIs([TerminalReady EXCEPT
              !.autoLoadPending = auto,
              !.logDepth = MaxLoads + 1,
              !.sent = <<[kind |-> "text", cmd |-> 0, payload |-> r, chk |-> 0]>>,
              !.wire = TextEncode(r)])

\* The Load button
ClickLoad ==
  /\ activeTab = "terminal"
  /\ captureSeq < MaxLoads
  /\ Commit(loadSettings(World, FALSE))

CaptureNext ==
  \/ ClickLoad
  \/ \E k \in 1 .. Len(wire) : Receive(k)
  \/ \E i \in 1 .. Len(tasks) : Resume(i)
  \/ \E t \in timers : TimerFire(t)

CaptureSpec == CaptureInit /\ [][CaptureNext]_vars

-----------------------------------------------------------------------------
(* Application specification: the page after loading; the user connects,   *)
(* clicks tabs and the Load and Defaults buttons, the poll interval ticks,  *)
(* the device sends bytes, and every suspended function and pending timer   *)
(* may run at any time                                                      *)

Tabs == {"status", "sensors", "terminal"}

\* What the device sends in one chunk: the prompt '# ', the sync byte '$'
DeviceChunks == {<<35, 32>>, <<36>>}

Init == InitIs(Boot)

\* One more event of the environment
Event(w) ==
  /\ events < MaxEvents
  /\ Commit([w EXCEPT !.events = @ + 1])

\* The Connect button while disconnected and no port is being closed: the
\* port opens, the read loop starts, then onConnect
Connect ==
  /\ ~connected
  /\ \A i \in 1 .. Len(tasks) : tasks[i].pc # "disconnect"
  /\ Commit(onConnect([World EXCEPT !.port = TRUE, !.reader = TRUE, !.writer = TRUE]))

\* A click on a tab of the sidebar; a click on the active tab returns at once
ClickTab(target) ==
  /\ connected
  /\ target # activeTab
  /\ Event(tabClick(World, target))

\* The Load button of the terminal tab; it returns at once while capturing
AppClickLoad ==
  /\ activeTab = "terminal"
  /\ ~capturing
  /\ Event(loadSettings(World, FALSE))

\* The Defaults button of the terminal tab; it returns at once while capturing
ClickDefaults ==
  /\ activeTab = "terminal"
  /\ ~capturing
  /\ Event(loadDefaults(World))

\* The read loop delivers a chunk
DeviceData(data) ==
  /\ connected
  /\ Event(readLoop(World, data))

\* The button while connected
ClickDisconnect ==
  /\ connected
  /\ Event(disconnectClick(World))

\* The device is unplugged or resets: the read loop ends
PortLost ==
  /\ reader
  /\ Event(readLoopEnd(World))

\* What the user types in the input line of the terminal: ' exit ', 'x'
TypedLines == {<<32>> \o TXT_exit \o <<32>>, <<120>>}

\* The Enter key in the input line of the terminal tab
PressEnter(value) ==
  /\ activeTab = "terminal"
  /\ Event(onInputKey(World, value))

\* The poll interval ticks
PollTick(t) ==
  /\ t \in timers
  /\ t.kind = "poll"
  /\ Event(fire(World, t))

\* A pending timeout expires
Timeout(t) ==
  /\ t.kind # "poll"
  /\ TimerFire(t)

Next ==
  \/ Connect
  \/ \E target \in Tabs : ClickTab(target)
  \/ AppClickLoad
  \/ ClickDefaults
  \/ \E data \in DeviceChunks : DeviceData(data)
  \/ ClickDisconnect
  \/ PortLost
  \/ \E value \in TypedLines : PressEnter(value)
  \/ \E t \in timers : PollTick(t)
  \/ \E i \in 1 .. Len(tasks) : Resume(i)
  \/ \E t \in timers : Timeout(t)

Spec == Init /\ [][Next]_vars

\* The whole application with the two latest writes in the log
HandshakeInit == InitIs([Boot EXCEPT !.logDepth = HandshakeDepth])

HandshakeSpec == HandshakeInit /\ [][Next]_vars

-----------------------------------------------------------------------------
(* Polling specification: the application with the events that start, stop *)
(* or restart the poll interval: connect, disconnect, loss of the port,    *)
(* tab clicks, changes of the refresh rate, ticks and continuations.       *)

\* One more event of the environment
PollEvent(w) ==
  /\ events < MaxPollEvents
  /\ Commit([w EXCEPT !.events = @ + 1])

\* A click on a tab of the sidebar
PollClickTab(target) ==
  /\ connected
  /\ target # activeTab
  /\ PollEvent(tabClick(World, target))

\* The refresh rate select changes; restartPolling itself looks at the link
\* and the tab
ChangeRefresh == PollEvent(restartPolling(World))

\* The button while connected
PollClickDisconnect ==
  /\ connected
  /\ PollEvent(disconnectClick(World))

\* The device is unplugged or resets: the read loop ends
PollPortLost ==
  /\ reader
  /\ PollEvent(readLoopEnd(World))

\* The poll interval ticks
PollFire(t) ==
  /\ t \in timers
  /\ t.kind = "poll"
  /\ PollEvent(fire(World, t))

PollNext ==
  \/ Connect
  \/ \E target \in Tabs : PollClickTab(target)
  \/ ChangeRefresh
  \/ PollClickDisconnect
  \/ PollPortLost
  \/ \E t \in timers : PollFire(t)
  \/ \E i \in 1 .. Len(tasks) : Resume(i)

\* The application before the first connect; the write log is not kept
PollInit == InitIs([Boot EXCEPT !.logDepth = 0])

PollSpec == PollInit /\ [][PollNext]_vars

-----------------------------------------------------------------------------
(* Request specification: the terminal tab is open and the link is in      *)
(* Command mode; a caller invokes loadSettings and loadDefaults in any     *)
(* order and at any time while the device sends the text 'x# ' in chunks   *)
(* of any size                                                             *)

RequestInit ==
  InitIs([TerminalReady EXCEPT !.logDepth = MaxRequests + 1,
                               !.wire = TextEncode(<<120>> \o PROMPT)])

CallLoadSettings ==
  /\ Len(calls) < MaxRequests
  /\ Commit(loadSettings([World EXCEPT !.calls = Append(@, "loadSettings")], FALSE))

CallLoadDefaults ==
  /\ Len(calls) < MaxRequests
  /\ Commit(loadDefaults([World EXCEPT !.calls = Append(@, "loadDefaults")]))

RequestNext ==
  \/ CallLoadSettings
  \/ CallLoadDefaults
  \/ \E k \in 1 .. Len(wire) : Receive(k)
  \/ \E i \in 1 .. Len(tasks) : Resume(i)
  \/ \E t \in timers : TimerFire(t)

RequestSpec == RequestInit /\ [][RequestNext]_vars

-----------------------------------------------------------------------------
(* Session specification: as the request specification, with the Load and  *)
(* Defaults buttons used while the terminal tab is shown, and the device   *)
(* may be lost at any time; a suspended function runs on at some time and  *)
(* a pending timeout expires at some time                                  *)

\* The device has the prompt '# ' to send
SessionInit ==
  InitIs([TerminalReady EXCEPT !.logDepth = MaxRequests + 1,
                               !.wire = TextEncode(PROMPT)])

\* The Load button
PressLoad ==
  /\ activeTab = "terminal"
  /\ CallLoadSettings

\* The Defaults button
PressDefaults ==
  /\ activeTab = "terminal"
  /\ CallLoadDefaults

\* The device is unplugged or resets: the read loop ends
DeviceLost ==
  /\ reader
  /\ Commit(readLoopEnd(World))

SessionNext ==
  \/ PressLoad
  \/ PressDefaults
  \/ DeviceLost
  \/ \E k \in 1 .. Len(wire) : Receive(k)
  \/ \E i \in 1 .. Len(tasks) : Resume(i)
  \/ \E t \in timers : TimerFire(t)

\* A suspended function runs on, or a pending timeout expires
Settle ==
  \/ \E i \in 1 .. Len(tasks) : Resume(i)
  \/ \E t \in timers : TimerFire(t)

SessionSpec ==
  /\ SessionInit
  /\ [][SessionNext]_vars
  /\ WF_vars(Settle)

-----------------------------------------------------------------------------
(* Claims about the frame codec, checked under CodecSpec *)

\* C1: a valid response frame for (c, P), delivered in chunks split at any
\* points, calls onMessage exactly once: not before its last byte, and after
\* it with cmd = c and payload = P.
C1_SplitFrameDecodedOnce ==
  (Len(sent) = 1 /\ sent[1].kind = "frame") =>
    /\ wire # <<>> => msgs = <<>>
    /\ wire = <<>> =>
         Decoded(msgs, heap) = <<[cmd |-> sent[1].cmd, payload |-> sent[1].payload]>>

\* C1 witness: a frame with the longest payload, delivered in two or more chunks
C1_Witness ==
  /\ Len(sent) = 1 /\ sent[1].kind = "frame"
  /\ Len(sent[1].payload) = MaxPayload
  /\ wire = <<>> /\ chunks >= 2 /\ Len(msgs) = 1

\* C2: mspEncode(c) is the six bytes 0x24 0x4D 0x3C 0x00 c c.
C2_EncodeBytes ==
  request # <<>> => request = <<36, 77, 60, 0, sent[1].cmd, sent[1].cmd>>

\* C2 witness: the attitude request, code 108
C2_Witness == request = <<36, 77, 60, 0, 108, 108>>

\* C3: a frame whose checksum byte is wrong emits nothing, leaves the decoder
\* Idle right after that byte, and the valid frame that follows is decoded.
C3_BadChecksumDropped ==
  (Len(sent) = 2 /\ sent[1].kind = "corrupt") =>
    /\ Len(wire) >= Len(ItemBytes(sent[2])) => msgs = <<>>
    /\ Len(wire) = Len(ItemBytes(sent[2])) => parser.state = S_IDLE
    /\ wire = <<>> =>
         Decoded(msgs, heap) = <<[cmd |-> sent[2].cmd, payload |-> sent[2].payload]>>

\* C3 witness: the wrong checksum byte is the sync byte itself, and the frame
\* after it has been decoded
C3_Witness ==
  /\ Len(sent) = 2 /\ sent[1].kind = "corrupt" /\ sent[1].chk = 36
  /\ wire = <<>> /\ Len(msgs) = 1 /\ parser.state = S_IDLE

\* C4: two valid frames in one chunk give two onMessage calls, in order, and
\* the first payload still reads as the first frame's after the second decode.
C4_TwoFramesOneChunk ==
  (Len(sent) = 2 /\ sent[1].kind = "frame" /\ chunks = 1 /\ wire = <<>>) =>
    Decoded(msgs, heap) = <<[cmd |-> sent[1].cmd, payload |-> sent[1].payload],
                            [cmd |-> sent[2].cmd, payload |-> sent[2].payload]>>

\* C4 witness: two frames with different non-empty payloads, one chunk
C4_Witness ==
  /\ Len(sent) = 2 /\ sent[1].kind = "frame"
  /\ sent[1].payload # <<>> /\ sent[2].payload # <<>>
  /\ sent[1].payload # sent[2].payload
  /\ chunks = 1 /\ wire = <<>> /\ Len(msgs) = 2

\* C5: mspEncode(c) with its direction byte changed to '>' decodes to exactly
\* one frame with cmd = c and an empty payload.
C5_EncodeDecodeRoundTrip ==
  (sent # <<>> /\ sent[1].kind = "echo" /\ request # <<>>) =>
    /\ wire # <<>> => msgs = <<>>
    /\ wire = <<>> =>
         Decoded(msgs, heap) = <<[cmd |-> sent[1].cmd, payload |-> <<>>]>>

\* C5 witness: command 255 has gone round
C5_Witness ==
  /\ sent # <<>> /\ sent[1].kind = "echo" /\ sent[1].cmd = 255
  /\ request # <<>> /\ wire = <<>> /\ Len(msgs) = 1

-----------------------------------------------------------------------------
(* Claims about the mode switch, checked under CliSpec *)

\* C6: from Telemetry, enterCli and then exitCli, with nothing else invoked,
\* leave the mode Telemetry and the routing on the binary decoder, and write
\* exactly the byte 0x23 and then the text 'exit\r\n'.
C6_EnterThenExit ==
  (calls = <<"enterCli", "exitCli">> /\ tasks = <<>>) =>
    /\ inCliMode = FALSE
    /\ onReceive = "msp"
    /\ [i \in 1 .. Len(writes) |-> writes[i].data]
         = << <<35>>, <<101, 120, 105, 116, 13, 10>> >>

\* C6 witness: both calls have returned
C6_Witness ==
  /\ calls = <<"enterCli", "exitCli">> /\ tasks = <<>>
  /\ Len(writes) = 2 /\ writes[1].cli /\ writes[2].cli

-----------------------------------------------------------------------------
(* Claims about the capture, checked under CaptureSpec *)

\* The session that ended last ended at the prompt, and the text it received
\* ends with the prompt marker and holds it nowhere earlier
EndedAtTrailingPrompt ==
  /\ ~capturing
  /\ lastFinish.by = "prompt" /\ lastFinish.sess = captureSeq
  /\ Len(captureBuffer) >= 2
  /\ \A i \in 1 .. (Len(captureBuffer) - 1) :
       (captureBuffer[i] = 35 /\ captureBuffer[i + 1] = 32) <=> i = Len(captureBuffer) - 1

\* The received text without its trailing prompt
ReceivedBody == SubSeq(captureBuffer, 1, Len(captureBuffer) - 2)

\* Line feeds j of the body such that the line before the first line feed
\* holds 'set'
EchoLineEnds ==
  {j \in 1 .. Len(ReceivedBody) :
     /\ ReceivedBody[j] = 10
     /\ \A k \in 1 .. (j - 1) : ReceivedBody[k] # 10
     /\ \E k \in 1 .. (j - 3) : /\ ReceivedBody[k] = 115
                                /\ ReceivedBody[k + 1] = 101
                                /\ ReceivedBody[k + 2] = 116}

C9_NoDanglingDeadline ==
  /\ (lastFinish.by = "timer" /\ ~capturing) => cleaned = CleanCapture(captureBuffer)
  /\ ~capturing => \A t \in timers : t.kind # "deadline"

-----------------------------------------------------------------------------
(* Claims about the whole application, checked under Spec *)

\* A request frame as mspEncode builds it: '$', 'M', '<', ...
IsMspRequest(data) == Len(data) >= 3 /\ SubSeq(data, 1, 3) = <<36, 77, 60>>

\* A text command as sendCommand builds it: ... '\r', '\n'
IsCliCommand(data) == Len(data) >= 2 /\ SubSeq(data, Len(data) - 1, Len(data)) = <<13, 10>>

\* C7 as stated: no MSP request frame is written to the transport while the
\* link mode is Command, and no CLI text command is written while the link
\* mode is Telemetry.
C7_NoCrossProtocolWrite ==
  \A i \in 1 .. Len(writes) :
    /\ IsMspRequest(writes[i].data) => ~writes[i].cli
    /\ IsCliCommand(writes[i].data) => writes[i].cli

\* C10 as stated: once a session is cancelled by deactivation no deadline is
\* armed for it, and a deadline armed for one session never fires
\* finishCapture on another session.
C10_DeadlineStaysWithItsSession ==
  /\ lastFinish.by = "deactivate" =>
       \A t \in timers : ~(t.kind = "deadline" /\ t.sess = lastFinish.sess)
  /\ lastFinish.by = "timer" => lastFinish.timer = lastFinish.sess

-----------------------------------------------------------------------------
(* Claims about the begin-capture requests, checked under RequestSpec *)

\* What a capture session and its request consist of
captureState == <<capturing, captureBuffer, captureSeq, captureTimer, timers, writes>>

\* C11: at most one capture session is open at a time: a session starts only
\* while none is active, and loadSettings or loadDefaults issued while a
\* session is active (by a caller, or loadSettings by loadDefaults after its
\* delay) starts no session, leaves the buffer alone, writes nothing and arms
\* no timer.
C11_OneSessionAtATime ==
  [][/\ captureSeq' # captureSeq => (~capturing /\ capturing' /\ captureSeq' = captureSeq + 1)
     /\ (capturing /\ (CallLoadSettings \/ CallLoadDefaults)) =>
          UNCHANGED <<captureState, tasks>>
     /\ \A i \in 1 .. Len(tasks) :
          (capturing /\ tasks[i].pc = "loadDefaults" /\ Resume(i)) =>
             UNCHANGED captureState]_vars

\* C11 witness: loadSettings, then loadSettings and loadDefaults again while
\* the first session is still the only one and active
C11_Witness ==
  /\ calls = <<"loadSettings", "loadSettings", "loadDefaults">>
  /\ capturing /\ captureSeq = 1
  /\ Len(writes) = 1

-----------------------------------------------------------------------------
(* Claims about the mode switch, checked under CliSpec *)

\* Everything but the record of the calls made
allButCalls ==
  <<parser, heap, port, reader, writer, onReceive, inCliMode, onTextReceive, pollTimer,
    activeTab, capturing, captureBuffer, captureTimer, autoLoadPending,
    silentLoad, termOutput,
    timers, tasks, msgs, writes, logDepth, events, cleaned, lastFinish, captureSeq,
    wire, sent, chunks, request, fed, probe>>

\* C12: enterCli called while the mode is Command writes nothing, does not
\* call the routing callback it was handed and leaves the mode Command.
C12_EnterInCommandIsNoOp ==
  [][(inCliMode /\ (CallEnterCli \/ CallEnterCliMsp)) =>
        (inCliMode' /\ UNCHANGED allButCalls)]_vars

\* C12 witness: the second enterCli was handed the callback that binds the
\* binary path, and the routing is still on the text path
C12_Witness ==
  /\ calls = <<"enterCli", "enterCli(switchToMsp)">>
  /\ inCliMode /\ onReceive = "cli"
  /\ Len(writes) = 1 /\ writes[1].data = <<35>>

\* C13: exitCli called while the mode is Telemetry, the initial mode, writes
\* nothing, does not call the routing callback and leaves the mode Telemetry.
C13_ExitInTelemetryIsNoOp ==
  [][/\ calls = <<>> => ~inCliMode
     /\ (~inCliMode /\ CallExitCli) => (~inCliMode' /\ UNCHANGED allButCalls)]_vars

\* C13 witness: exitCli after cliReset has left the routing on the text path,
\* where the callback would have moved it
C13_Witness ==
  /\ calls = <<"enterCli", "cliReset", "exitCli">>
  /\ ~inCliMode /\ onReceive = "cli"
  /\ Len(writes) = 1

\* The caller has handed enterCli no other callback than switchToCli
StandardCallbacks == \A i \in 1 .. Len(calls) : calls[i] # "enterCli(switchToMsp)"

\* C14: enterCli from Telemetry sets the mode to Command and binds the routing
\* to the text path before it writes the trigger byte 0x23, its only write,
\* and is then suspended until its delay is over; so while the mode is
\* Command the routing is on the text path, and a chunk received then does
\* not reach the binary decoder.
C14_EnterOrder ==
  [][/\ (~inCliMode /\ CallEnterCli) =>
          /\ inCliMode' /\ onReceive' = "cli"
          /\ writes' = Append(writes, [data |-> <<35>>, cli |-> TRUE, route |-> "cli"])
          /\ tasks' = Append(tasks, Task("enterCli", "caller", "none", 0))
     /\ (StandardCallbacks /\ inCliMode) => onReceive = "cli"
     /\ \A data \in FrameStarts :
          (StandardCallbacks /\ inCliMode /\ CliReceive(data)) =>
             UNCHANGED <<parser, heap, msgs>>]_vars

\* C14 witness: enterCli is suspended after the trigger byte, with the decoder
\* where a chunk received before the call left it
C14_Witness ==
  /\ calls = <<"enterCli">>
  /\ tasks = <<Task("enterCli", "caller", "none", 0)>>
  /\ writes = <<[data |-> <<35>>, cli |-> TRUE, route |-> "cli"]>>
  /\ parser.state = S_HEADER_M

\* Everything but the mode and the record of the calls made
allButMode ==
  <<parser, heap, port, reader, writer, onReceive, onTextReceive, pollTimer,
    activeTab, capturing, captureBuffer, captureTimer, autoLoadPending,
    silentLoad, termOutput,
    timers, tasks, msgs, writes, logDepth, events, cleaned, lastFinish, captureSeq,
    wire, sent, chunks, request, fed, probe>>

\* C15: exitCli from Command first writes 'exit\r\n' and is suspended with the
\* mode still Command and the routing untouched; the mode leaves Command only
\* when a suspended exitCli resumes after its delay (or by cliReset), and
\* that one step sets the mode to Telemetry and binds the routing to the
\* binary path together, writing nothing.
C15_ExitOrder ==
  [][/\ (inCliMode /\ CallExitCli) =>
          /\ inCliMode' /\ UNCHANGED onReceive
          /\ writes' = Append(writes, [data |-> TextEncode(TXT_exit \o CRLF),
                                       cli |-> TRUE, route |-> onReceive])
          /\ tasks' = Append(tasks, Task("exitCli", "caller", "none", 0))
     /\ (inCliMode /\ ~inCliMode') =>
          \/ CallCliReset
          \/ \E i \in 1 .. Len(tasks) : tasks[i].pc = "exitCli" /\ Resume(i)
     /\ \A i \in 1 .. Len(tasks) :
          (tasks[i].pc = "exitCli" /\ Resume(i)) =>
             (~inCliMode' /\ onReceive' = "msp" /\ UNCHANGED writes)]_vars

\* C15 witness: exitCli is suspended in its delay after the exit command, the
\* mode still Command and the routing still on the text path
C15_Witness ==
  /\ calls = <<"enterCli", "exitCli">>
  /\ tasks = <<Task("exitCli", "caller", "none", 0)>>
  /\ inCliMode /\ onReceive = "cli"
  /\ Len(writes) = 2 /\ writes[2].data = <<101, 120, 105, 116, 13, 10>>

\* C16: cliReset sets the mode to Telemetry from either mode, writes nothing
\* and changes nothing else: not the routing, not the decoder, not the
\* capture.
C16_ResetOnlyMode ==
  [][CallCliReset => (~inCliMode' /\ UNCHANGED allButMode)]_vars

\* C16 witness: cliReset in Command mode has left the routing on the text path
\* and the decoder inside the frame it was in
C16_Witness ==
  /\ calls = <<"enterCli", "cliReset">>
  /\ ~inCliMode /\ onReceive = "cli"
  /\ parser.state = S_DIR
  /\ Len(writes) = 1

-----------------------------------------------------------------------------
(* Claims about the routing slot, checked under Spec *)

\* The step runs enterCli past its guard, in the tab click handler
InEnterCli ==
  /\ \E target \in Tabs : ClickTab(target)
  /\ ~inCliMode /\ inCliMode'

\* The step resumes an exitCli after its delay
InExitCli ==
  /\ \E i \in 1 .. Len(tasks) : tasks[i].pc = "exitCli" /\ Resume(i)
  /\ ~inCliMode'

\* C17 as stated: every change of the routing slot happens inside enterCli or
\* exitCli, through the callback passed to them.
C17_AsStated ==
  [][onReceive' # onReceive =>
        \/ InEnterCli /\ onReceive' = "cli"
        \/ InExitCli /\ onReceive' = "msp"]_vars

\* C17 amended: every change of the routing slot happens inside enterCli or
\* exitCli, through the callback passed to them, or in onConnect, which binds
\* the slot to the binary decoder.
C17_RoutingOwners ==
  [][onReceive' # onReceive =>
        \/ InEnterCli /\ onReceive' = "cli"
        \/ InExitCli /\ onReceive' = "msp"
        \/ Connect /\ onReceive' = "msp"]_vars

\* C17 witness: the slot bound by onConnect was moved to the text path by
\* enterCli and back by exitCli, whose exit command is the latest write
C17_Witness ==
  /\ connected /\ onReceive = "msp" /\ ~inCliMode
  /\ writes = <<[data |-> <<101, 120, 105, 116, 13, 10>>, cli |-> TRUE, route |-> "cli"]>>

-----------------------------------------------------------------------------
(* Claims about the decoder on any input, checked under StreamSpec *)

\* The most bytes the decoder can still take before it is Idle again: the
\* rest of the header, the length and command bytes, the declared payload
\* (at most 255 bytes where the length byte is still to come), the checksum
FramingDebt(p) ==
  CASE p.state = S_HEADER_M -> 260
    [] p.state = S_DIR      -> 259
    [] p.state = S_LEN      -> 258
    [] p.state = S_CMD      -> p.len + 2
    [] p.state = S_PAYLOAD  -> (p.len - p.payloadIdx) + 1
    [] p.state = S_CHECKSUM -> 1
    [] OTHER                -> 0

C19_ResetDiscardsPartial ==
  [][/\ Reset => (parser'.state = S_IDLE /\ UNCHANGED <<msgs, heap>>)
     /\ \A it \in ProbeItems :
          FeedFrame(it) =>
            /\ parser'.state = S_IDLE
            /\ Decoded(msgs', heap')
                 = Append(Decoded(msgs, heap), [cmd |-> it.cmd, payload |-> it.payload])]_vars

\* C19 witness: reset() in the middle of the payload of a frame of length 2,
\* then a valid frame with another cmd and payload
C19_Witness ==
  /\ fed = <<36, 77, 62, 2, 0, 2, -1>> \o ItemBytes(ValidItem(36, <<255, 0>>))
  /\ Decoded(msgs, heap) = <<[cmd |-> 36, payload |-> <<255, 0>>]>>
  /\ parser.state = S_IDLE

-----------------------------------------------------------------------------
(* Claims about the text path of the terminal, checked under CaptureSpec *)

\* What finishCapture can add to the display when it ends a session that
\* accumulated buffer: nothing, or one of its two notices
FinishNotes(buffer) ==
  {<<>>, NOTE_none}
  \cup {NOTE_loaded \o Decimal(n) \o NOTE_parameters : n \in 1 .. Len(buffer)}

\* C21: while a session is active every chunk received is appended to the
\* buffer, in arrival order, and not shown on the display; the session ends
\* on the first chunk after which the buffer holds the prompt marker '# ',
\* wherever the response is split into chunks, and then the display gets at
\* most the notice of the finish.
C21_CapturedNotDisplayed ==
  [][/\ capturing => ~Includes(captureBuffer, PROMPT)
     /\ \A k \in 1 .. Len(wire) :
          (capturing /\ Receive(k)) =>
             /\ captureBuffer' = captureBuffer \o TextDecode(SubSeq(wire, 1, k))
             /\ capturing' <=> ~Includes(captureBuffer', PROMPT)
             /\ capturing' => UNCHANGED termOutput
             /\ ~capturing' =>
                  \E note \in FinishNotes(captureBuffer') :
                    termOutput'.textContent = termOutput.textContent \o note]_vars

\* C21 witness: the session begun by the Load button has received 'ok\r\n#',
\* the first half of the marker, and shows only the notice of the request;
\* the second half is still on the wire
C21_Witness ==
  /\ capturing
  /\ captureBuffer = <<111, 107, 13, 10, 35>>
  /\ wire = <<32>>
  /\ termOutput.textContent = NOTE_set

\* C22: while no session is active every chunk received is appended to the
\* display as it is, in arrival order, and no session is active when
\* onCliText returns; if the auto-load is pending and the chunk holds '# ',
\* the flag is cleared and one deferred task is scheduled, and the session
\* begins when that task runs, without a notice on the display.
C22_IdleTextDisplayed ==
  [][/\ \A k \in 1 .. Len(wire) :
          (~capturing /\ Receive(k)) =>
             /\ termOutput'.textContent
                  = termOutput.textContent \o TextDecode(SubSeq(wire, 1, k))
             /\ ~capturing'
             /\ UNCHANGED <<captureSeq, captureBuffer, writes, tasks>>
             /\ IF autoLoadPending /\ Includes(TextDecode(SubSeq(wire, 1, k)), PROMPT)
                THEN /\ ~autoLoadPending'
                     /\ \E t \in timers' \ timers :
                          t.kind = "autoLoad" /\ timers' = timers \cup {t}
                ELSE UNCHANGED <<autoLoadPending, timers>>
     /\ \A t \in timers :
          (t.kind = "autoLoad" /\ ~capturing /\ TimerFire(t)) =>
             /\ capturing' /\ captureSeq' = captureSeq + 1
             /\ UNCHANGED termOutput]_vars

\* C22 witness: the text 'ok\r\n# ' is on the display, the auto-load is
\* scheduled and has not begun
C22_Witness ==
  /\ ~capturing /\ captureSeq = 0 /\ ~autoLoadPending
  /\ \E t \in timers : t.kind = "autoLoad"
  /\ termOutput.textContent = <<111, 107, 13, 10, 35, 32>>
  /\ chunks >= 2

\* The accumulated text up to its last prompt marker, all of it without one
UpToLastPrompt(buffer) ==
  IF LastIndexOf(buffer, PROMPT) >= 0
  THEN Substring(buffer, 0, LastIndexOf(buffer, PROMPT))
  ELSE buffer

\* The first line of the text is the command, as the device echoes it
StartsWithEcho(text, cmd) ==
  /\ IndexOf(text, LF) >= 0
  /\ Trim(Substring(text, 0, IndexOf(text, LF))) = cmd

\* C23 as stated: finishCapture cancels the pending deadline, clears the
\* active flag, and the cleaned text is the buffer up to its last prompt
\* marker, without its first line if and only if that line is the echo of
\* the command sent; no other text before the last marker is removed.
C23_AsStated ==
  [][(capturing /\ ~capturing') =>
        /\ captureTimer' = 0
        /\ \A t \in timers' : t.id # captureTimer
        /\ cleaned' = IF StartsWithEcho(UpToLastPrompt(captureBuffer'), TXT_set)
                      THEN SubstringFrom(UpToLastPrompt(captureBuffer'),
                                         IndexOf(UpToLastPrompt(captureBuffer'), LF) + 1)
                      ELSE UpToLastPrompt(captureBuffer')]_vars

-----------------------------------------------------------------------------
(* Claims about the read accessors, checked under ReadSpec *)

\* C24 as stated: readU32(payload, offset) is the unsigned little-endian
\* value b0 + 2^8*b1 + 2^16*b2 + 2^24*b3 of the four bytes at the offset, a
\* number from 0 to 2^32 - 1, for all byte values.
C24_AsStated ==
  probe.fn = "readU32" =>
    /\ probe.value >= 0
    /\ probe.value % (256 * 65536)
         = probe.payload[probe.offset + 1] + (256 * probe.payload[probe.offset + 2])
             + (65536 * probe.payload[probe.offset + 3])
    /\ probe.value \div (256 * 65536) = probe.payload[probe.offset + 4]

-----------------------------------------------------------------------------
(* Claims about the end of a session, checked under SessionSpec *)

\* C25 as stated: every capture session ends at some time, by the prompt, by
\* the deadline or by deactivation, also when the device never replies or
\* the write of the request fails, provided that armed timers fire.
C25_AsStated == capturing ~> ~capturing

-----------------------------------------------------------------------------
(* Claims about the tabs and the link, checked under Spec *)

\* C26 as stated: in every state where the link mode is Command the poll
\* interval is not armed, also when the terminal tab was entered while
\* queryIdentity was suspended at one of its delays.
C26_AsStated ==
  inCliMode => (pollTimer = 0 /\ \A t \in timers : t.kind # "poll")

\* C27: leaving the terminal tab while connected, in Command mode: the click
\* deactivates the capture and writes the exit command, and until exitCli
\* has returned the mode, the routing, the decoder, the polling and the
\* active tab stay as they are; the step in which exitCli returns sets the
\* mode to Telemetry, binds the routing to the binary decoder, resets the
\* decoder to Idle with no byte decoded in between, and ends with the
\* polling started and the target tab active.
C27_LeaveTerminalOrder ==
  [][/\ \A target \in Tabs :
          (activeTab = "terminal" /\ inCliMode /\ ClickTab(target)) =>
             /\ ~capturing' /\ captureTimer' = 0 /\ captureBuffer' = <<>>
             /\ \A t \in timers' : t.id # captureTimer
             /\ writes'[Len(writes')].data = TextEncode(TXT_exit \o CRLF)
             /\ tasks' = Append(tasks, Task("exitCli", "tabLeave", target, 0))
             /\ inCliMode'
             /\ UNCHANGED <<onReceive, parser, heap, msgs, pollTimer, activeTab>>
     /\ \A i \in 1 .. Len(tasks) :
          (tasks[i].pc = "exitCli" /\ tasks[i].cont = "tabLeave" /\ Resume(i)) =>
             /\ ~inCliMode' /\ onReceive' = "msp"
             /\ parser' = [parser EXCEPT !.state = S_IDLE]
             /\ UNCHANGED <<heap, msgs, writes>>
             /\ pollTimer' # 0
             /\ \E t \in timers' : t.id = pollTimer' /\ t.kind = "poll"
             /\ activeTab' = tasks[i].target]_vars

\* C27 witness: the terminal tab was left while a session was active; the
\* session is cancelled, the link is back in Telemetry mode with the decoder
\* Idle, the polling runs and the status tab is shown
C27_Witness ==
  /\ connected /\ activeTab = "status"
  /\ lastFinish.by = "deactivate" /\ ~capturing
  /\ ~inCliMode /\ onReceive = "msp" /\ parser.state = S_IDLE
  /\ pollTimer # 0

\* C28: a step that puts 'exit\r\n' at the end of the write log is a click
\* that calls exitCli in Command mode (a tab click leaving the terminal tab,
\* or the disconnect click on the terminal tab); Enter on a line that is
\* 'exit' after trimming writes nothing and shows the hint instead.
C28_ExitOnlyFromExitCli ==
  [][/\ (/\ writes' # writes /\ writes' # <<>>
         /\ writes'[Len(writes')].data = TextEncode(TXT_exit \o CRLF)) =>
           /\ inCliMode /\ activeTab = "terminal"
           /\ \/ \E target \in Tabs \ {"terminal"} : ClickTab(target)
              \/ ClickDisconnect
     /\ \A value \in TypedLines :
          (PressEnter(value) /\ Trim(value) = TXT_exit) =>
             /\ UNCHANGED writes
             /\ termOutput'.textContent = termOutput.textContent \o NOTE_exit]_vars

\* C28 witness: in Command mode ' exit ' was entered on the terminal tab: the
\* hint is displayed and the latest write is still the '#' of enterCli
C28_Witness ==
  /\ connected /\ inCliMode /\ activeTab = "terminal"
  /\ termOutput.textContent = NOTE_exit
  /\ writes = <<[data |-> <<35>>, cli |-> TRUE, route |-> "cli"]>>

\* C29: whenever the port is connected, received bytes are routed to the
\* text path exactly when the mode is Command and to the binary decoder
\* exactly when the mode is Telemetry.
C29_RoutingFollowsMode ==
  connected => /\ (onReceive = "cli") <=> inCliMode
               /\ (onReceive = "msp") <=> ~inCliMode

\* C29 witness: connected in Command mode with the text route while the
\* identity query of the connect and the exit handshake of a tab click are
\* both suspended at their delays
C29_Witness ==
  /\ connected /\ inCliMode /\ onReceive = "cli"
  /\ \E i \in 1 .. Len(tasks) : tasks[i].pc = "queryIdentity"
  /\ \E i \in 1 .. Len(tasks) : tasks[i].pc = "exitCli" /\ tasks[i].cont = "tabLeave"

\* C30: a capture session is active (capturing is set, or a deadline is armed)
\* only while the mode is Command.
C30_AsStated ==
  (capturing \/ captureTimer # 0 \/ \E t \in timers : t.kind = "deadline") => inCliMode

\* C32: while the link is down (before the first connect, and from the run of
\* onDisconnect to the next connect) the mode is Telemetry, the binary
\* decoder is Idle and no poll interval timer is armed.
C32_AsStated ==
  ~connected => /\ ~inCliMode
                /\ parser.state = S_IDLE
                /\ pollTimer = 0
                /\ \A t \in timers : t.kind # "poll"

\* C31: 'exit\r\n' is never written twice in a row, that is, without a write
\* of the trigger byte '#' in between.
C31_AsStated ==
  \A i \in 1 .. Len(writes) - 1 :
     ~ /\ writes[i].data = TextEncode(TXT_exit \o CRLF)
       /\ writes[i + 1].data = TextEncode(TXT_exit \o CRLF)

(* Claims about the poll interval, checked under PollSpec *)

\* C33: every armed poll interval timer is the one pollTimer refers to, so at
\* most one is armed: an interval that pollTimer no longer refers to has
\* been cleared.
C33_OnePollTimer ==
  /\ \A t \in timers : t.kind = "poll" => t.id = pollTimer
  /\ Cardinality({t \in timers : t.kind = "poll"}) <= 1

\* C33 witness: on the sensors tab, after four events, the interval that
\* pollTimer refers to is the only timer
C33_Witness ==
  /\ connected /\ activeTab = "sensors" /\ events >= 4
  /\ pollTimer # 0
  /\ timers = {[id |-> pollTimer, kind |-> "poll", sess |-> 0]}

=============================================================================
